---- MODULE Spec2Model ----
(***************************************************************************)
(* The local directory source of img (source/local/local.go): the handler  *)
(* operations CacheKey and Snapshot, driven against the collaborators they *)
(* call: the metadata store (Search, Get, SetValue), the cache accessor    *)
(* (GetMutable, New, Mount, Commit, Release), the local mounter, the       *)
(* content-hash context and the directory copier.                          *)
(*                                                                         *)
(* A Go string is a sequence of one-character strings, so that + is \o and *)
(* two concatenations are equal exactly when the Go strings are.  A        *)
(* multi-character literal of the source ("local.sharedKey", "session:")   *)
(* is one symbol of such a sequence: no other symbol is a part of it.      *)
(***************************************************************************)
EXTENDS Naturals, Sequences, FiniteSets, TLC

\* ------------------------------------------------------------------ bounds

\* number of handler/call slots that may run Snapshot concurrently
NumSlots == 2
\* total number of Snapshot invocations in one behaviour
MaxInvocations == 3
\* number of ref ids the cache accessor can hand out
MaxRefs == 2
\* number of collaborator failures injected in one behaviour
MaxFaults == 1

Slots == 1..NumSlots
Refs == 1..MaxRefs

\* ----------------------------------------------------------------- strings

Empty == << >>

\* errors.New("could not access local files without session"), lines 74, 92
NoSession == "could not access local files without session"

\* const keySharedKey = "local.sharedKey"
keySharedKey == <<"local.sharedKey">>

\* Opt.LocalDirs: name -> host path, fixed when the source is constructed.
LocalDirs == (<<"a">> :> <<"/", "p">>) @@ (<<"b">> :> <<"/", "q">>)

\* ls.ld[name]: a name that is not configured reads as "" (Go map lookup)
LookupDir(ld, name) == IF name \in DOMAIN ld THEN ld[name] ELSE Empty

\* a source.LocalIdentifier
Ident(name, sess, hint, inc, exc) ==
    [Name |-> name, SessionID |-> sess, SharedKeyHint |-> hint,
     IncludePatterns |-> inc, ExcludePatterns |-> exc]

\* Resolve: the handler holds a copy of the identifier and the source's fields
Resolve(id, ld) == [src |-> id, ld |-> ld]

\* ------------------------------------------------------------ encoding/json

\* json.Marshal of a string body: the quote and the backslash are escaped,
\* every other character of valid UTF-8 text is written as it is
RECURSIVE JSONEscape(_)
JSONEscape(s) ==
    IF s = Empty THEN Empty
    ELSE (IF Head(s) \in {"\"", "\\"} THEN <<"\\", Head(s)>> ELSE <<Head(s)>>)
         \o JSONEscape(Tail(s))

JSONString(s) == <<"\"">> \o JSONEscape(s) \o <<"\"">>

RECURSIVE JSONElems(_)
JSONElems(l) ==
    IF l = Empty THEN Empty
    ELSE JSONString(Head(l))
         \o (IF Tail(l) = Empty THEN Empty ELSE <<",">> \o JSONElems(Tail(l)))

\* json.Marshal of a []string: a nil slice is null
JSONStrings(l) == IF l = Empty THEN <<"null">> ELSE <<"[">> \o JSONElems(l) \o <<"]">>

\* as JSONMarshalKey, with the ExcludePatterns field left out of the struct
JSONMarshalKeyNoExclude(sessionID, include, exclude) ==
    <<"{", "\"SessionID\"", ":">> \o JSONString(sessionID)
    \o <<",", "\"IncludePatterns\"", ":">> \o JSONStrings(include)
    \o <<"}">>

\* json.Marshal of the anonymous struct of CacheKey: fields in declaration order
JSONMarshalKey(sessionID, include, exclude) ==
    <<"{", "\"SessionID\"", ":">> \o JSONString(sessionID)
    \o <<",", "\"IncludePatterns\"", ":">> \o JSONStrings(include)
    \o <<",", "\"ExcludePatterns\"", ":">> \o JSONStrings(exclude)
    \o <<"}">>

\* json.Unmarshal of a JSON string into a Go string (metadata Value.Unmarshal)
RECURSIVE JSONUnescape(_)
JSONUnescape(s) ==
    IF s = Empty THEN Empty
    ELSE IF Head(s) = "\\" /\ Len(s) >= 2
         THEN <<s[2]>> \o JSONUnescape(Tail(Tail(s)))
         ELSE <<Head(s)>> \o JSONUnescape(Tail(s))

JSONIsString(s) == Len(s) >= 2 /\ s[1] = "\"" /\ s[Len(s)] = "\""

JSONUnmarshalString(s) == JSONUnescape(SubSeq(s, 2, Len(s) - 1))

\* ------------------------------------------------------------------ CacheKey

\* as CacheKeySession, with the context's session before the identifier's
CacheKeySessionContextFirst(ls, ctx) ==
    IF ctx = Empty THEN ls.src.SessionID ELSE ctx

\* the session ID CacheKey uses: the identifier's, else the context's
CacheKeySession(ls, ctx) ==
    IF ls.src.SessionID = Empty THEN ctx ELSE ls.src.SessionID

\* digest.FromBytes(dt).String() is "sha256:" and 64 hex digits.  The digest is
\* taken to be injective, and because the hex part has a fixed width the key
\* "session:" + name + ":" + digest is kept as the text before the hex digits
\* and the bytes that were hashed: two such keys are equal as Go strings
\* exactly when both parts are.
CacheKeyString(name, dt) ==
    [text |-> <<"session:">> \o name \o <<":">> \o <<"sha256:">>, hashed |-> dt]

\* as CacheKey, with the shared key of Snapshot in the place of the name
CacheKeyOfSharedKey(ls, ctx) ==
    IF CacheKeySession(ls, ctx) = Empty
    THEN [key |-> [text |-> Empty, hashed |-> Empty], err |-> NoSession]
    ELSE [key |-> CacheKeyString(
                     <<"local.sharedKey">> \o <<":">> \o ls.src.Name \o <<":">>
                        \o ls.src.SharedKeyHint \o <<":">>
                        \o (IF ls.src.Name \in DOMAIN ls.ld THEN ls.ld[ls.src.Name] ELSE Empty),
                     JSONMarshalKey(CacheKeySession(ls, ctx),
                                    ls.src.IncludePatterns,
                                    ls.src.ExcludePatterns)),
          err |-> "nil"]

\* localSourceHandler.CacheKey: the returned pair (string, error)
CacheKey(ls, ctx) ==
    IF CacheKeySession(ls, ctx) = Empty
    THEN [key |-> [text |-> Empty, hashed |-> Empty], err |-> NoSession]
    ELSE [key |-> CacheKeyString(ls.src.Name,
                     JSONMarshalKey(CacheKeySession(ls, ctx),
                                    ls.src.IncludePatterns,
                                    ls.src.ExcludePatterns)),
          err |-> "nil"]

\* ------------------------------------------------------------------ Snapshot

\* line 95: the shared key of a handler
SharedKeyOf(ls) ==
    keySharedKey \o <<":">> \o ls.src.Name \o <<":">> \o ls.src.SharedKeyHint
    \o <<":">> \o LookupDir(ls.ld, ls.src.Name)


\* the identifiers Snapshot is called for: they agree on name, hint and host
\* path and differ in session and filters
IdentA == Ident(<<"a">>, Empty, Empty, Empty, Empty)
IdentB == Ident(<<"a">>, <<"s">>, Empty, << <<"x">> >>, Empty)
Idents == {IdentA, IdentB}

\* session.FromContext(ctx): "" when the context carries no session
Contexts == {Empty, <<"t">>}

SharedKeys == {SharedKeyOf(Resolve(id, LocalDirs)) : id \in Idents}

\* a nil ref (ref ids start at 1), a nil local mounter, a nil metadata value
Nil == 0
NilMounter == "nil"
NilValue == [Value |-> Empty, Index |-> Empty, set |-> FALSE]

VARIABLES
    refs,         \* cache accessor and metadata store: one record per ref id
    slots,        \* one record per handler: its Snapshot call's locals
    relPending,   \* per ref, the "go mutable.Release" goroutines not yet run
    invocations,  \* handlers resolved so far
    faults,       \* collaborator failures so far
    hist          \* per shared key, what the calls for it did (observation only)

vars == <<refs, slots, relPending, invocations, faults, hist>>

\* ---------------------------------------------------------- metadata store

\* StorageItem.Get(key): the value stored under key, or nil
StorageGet(md, key) ==
    IF \E e \in md : e.key = key THEN (CHOOSE e \in md : e.key = key).val ELSE NilValue

\* StorageItem.SetValue(b, key, v): the value under key is replaced; the value
\* carries the index it is to be found by
StorageSetValue(md, key, v) == {e \in md : e.key # key} \cup {[key |-> key, val |-> v]}

\* whether a record is found by a search for index
Indexed(md, index) == \E e \in md : e.val.Index = index

\* the ids in ascending order: the index is iterated in key order
RECURSIVE SortedSeq(_)
SortedSeq(S) ==
    IF S = {} THEN Empty
    ELSE LET m == CHOOSE x \in S : \A y \in S : x <= y
         IN <<m>> \o SortedSeq(S \ {m})

\* Store.Search(index): the records holding a value with that index, whether
\* or not their ref still exists
MdSearch(index) == SortedSeq({r \in Refs : Indexed(refs[r].md, index)})

\* as NewIndexedValue, without the assignment to v.Index
NewValueNoIndex(sharedKey) ==
    [Value |-> <<"\"">> \o sharedKey \o <<"\"">>, Index |-> Empty, set |-> TRUE]

\* metadata.NewValue(sharedKey) with v.Index = sharedKey (lines 172-176)
NewIndexedValue(sharedKey) ==
    [Value |-> JSONString(sharedKey), Index |-> sharedKey, set |-> TRUE]

\* cache accessor: GetMutable(id) succeeds for a ref that exists and is not in
\* use (neither held as mutable nor referenced through its committed snapshot)
Acquirable(r) == refs[r].state = "free"


\* ------------------------------------------------- conditions of the code

\* as SnapshotSession, were the identifier's session honoured as in CacheKey
SnapshotSessionOfIdent(ls, ctx) == CacheKeySession(ls, ctx)

\* line 90: the session Snapshot requires is the context's
SnapshotSession(ls, ctx) == ctx

\* line 103: a match is taken when GetMutable returned no error
ReuseRef(err) == err = "nil"

\* as LoopMatch, with the matches taken from the last one on
LoopMatchReversed(sis, i) == sis[Len(sis) + 1 - i]

\* line 102: the loop goes through the matches in the order Search gave them
LoopMatch(sis, i) == sis[i]

\* as LoopTake, with the match used whether or not it was acquired
LoopTakeUnchecked(err, m, id, mutable) == id

\* lines 103-106: the local mutable after GetMutable(id) returned (m, err)
LoopTake(err, m, id, mutable) == IF ReuseRef(err) THEN m ELSE mutable

\* as LoopDone, without the break
LoopDoneNoBreak(err, i, n) == i >= n

\* lines 102-108: the loop ends at the first match taken (break) or with the
\* last match; i is the match just tried, n the number of matches
LoopDone(err, i, n) == ReuseRef(err) \/ i >= n

\* as NeedNew, without the nil check
NeedNewAlways(mutable) == TRUE

\* line 110: a fresh ref is created when the loop took none
NeedNew(mutable) == mutable = Nil

\* as GuardRelease, with the error test inverted
GuardReleaseOnSuccess(retErr, mutable) == retErr = "nil" /\ mutable # Nil

\* lines 119-123: the deferred release fires on an error while a ref is held
GuardRelease(retErr, mutable) == retErr # "nil" /\ mutable # Nil

\* as GuardUnmount, with the error test inverted
GuardUnmountOnSuccess(retErr, lm) == retErr = "nil" /\ lm # NilMounter

\* lines 137-141: the deferred unmount fires on an error while lm is set
GuardUnmount(retErr, lm) == retErr # "nil" /\ lm # NilMounter

\* line 164: the key whose value says which shared key the record has
SkipLookupKey == keySharedKey

\* lines 162-170: the write is skipped when the value read equals sharedKey
SkipStoreSharedKey(v, sharedKey) ==
    v # NilValue /\ JSONUnmarshalString(v.Value) = sharedKey

\* line 178: the key SetValue writes the value under
StoredKey(sharedKey) == sharedKey

\* line 190: after a successful Commit the local is cleared
MutableAfterCommit(mutable) == Nil

\* line 155: after a successful explicit Unmount the local is cleared
LmAfterUnmount(lm) == NilMounter

\* --------------------------------------------------------------- the state

NoKey == [key |-> [text |-> Empty, hashed |-> Empty], err |-> "none"]

\* a slot with no call yet.  op, src, ld and ctx say which operation of which
\* handler the slot runs (or ran last); pc to out are the locals of Snapshot;
\* sharedKey is the local of line 95 (kept after the return, it is a function
\* of the handler); ck is what CacheKey returned.  From held on the fields are observations of
\* the current call: the refs it held, how often it called New, GetMutable
\* (with success), Release, Unmount, SetValue, SetCacheContext and Commit (with
\* success), the matches it skipped, whether it took exactly the matches that
\* GetMutable returned, and whether an Unmount of it succeeded; steps are the
\* steps of the body from the mount on that the call started, in order, and
\* nOk is how many of them succeeded; lostRace says that GetMutable failed
\* for a match because another call in flight held it; nSearch is how often
\* the call searched the index
IdleSlot ==
    [pc |-> "idle", op |-> "none", src |-> IdentA, ld |-> LocalDirs, ctx |-> Empty,
     sharedKey |-> Empty, sis |-> Empty, i |-> 0, mutable |-> Nil, lm |-> NilMounter,
     retErr |-> "nil", out |-> Nil, ck |-> NoKey,
     held |-> {}, nNew |-> 0, nAcq |-> 0, nRelease |-> 0, nUnmount |-> 0,
     nWrite |-> 0, nSave |-> 0, nCommit |-> 0, skipped |-> {}, fit |-> TRUE,
     unmountOk |-> FALSE, steps |-> Empty, nOk |-> 0,
     lostRace |-> FALSE, nSearch |-> 0]

\* a ref id: its state in the cache accessor, its metadata record, whether a
\* local mount of it made by the call that holds it exists, whether the last
\* copy into it was cut short, how often a value was set on its record, and
\* whether a call that returned left a mount of it behind
NoRef ==
    [state |-> "none", md |-> {}, mounted |-> FALSE, partial |-> FALSE, nSet |-> 0,
     dangling |-> FALSE]

NoHist == [clean |-> TRUE, first |-> Nil, created |-> 0]

Init ==
    /\ refs = [r \in Refs |-> NoRef]
    /\ slots = [c \in Slots |-> IdleSlot]
    /\ relPending = [r \in Refs |-> 0]
    /\ invocations = 0
    /\ faults = 0
    /\ hist = [k \in SharedKeys |-> NoHist]

Handler(c) == Resolve(slots[c].src, slots[c].ld)
sharedKey(c) == SharedKeyOf(Handler(c))

InFlight(c) == slots[c].pc \notin {"idle", "returned"}

\* a collaborator call may fail while the fault budget lasts
CanFault == faults < MaxFaults

\* what the return of a call adds to the history of its shared key: the
\* history stays clean while every call for the key succeeded, ran alone and
\* found the first ref acquirable
HistReturn(k, err) ==
    [hist EXCEPT ![k].clean = @ /\ err = "nil"]

\* as AfterBody, with the two deferred functions registered in the other
\* order: the release guard runs first, and the call returns from it
AfterBodyReleaseFirst(s, depth) ==
    IF depth >= 1 /\ GuardRelease(s.retErr, s.mutable) THEN "defer1"
    ELSE IF depth >= 2 /\ GuardUnmount(s.retErr, s.lm) THEN "defer2"
    ELSE "returned"

\* where a call continues after its body ended with the locals of s: the
\* deferred functions registered so far (depth 2: the unmount guard of line
\* 137 and the release guard of line 119; depth 1: the release guard) run in
\* reverse order; a guard whose condition is false does nothing
AfterBody(s, depth) ==
    IF depth >= 2 /\ GuardUnmount(s.retErr, s.lm) THEN "defer2"
    ELSE IF depth >= 1 /\ GuardRelease(s.retErr, s.mutable) THEN "defer1"
    ELSE "returned"

\* the slot after the call returned: the locals are gone, the result and the
\* observations stay
Returned(s) ==
    [s EXCEPT !.pc = "returned", !.sis = Empty, !.i = 0, !.mutable = Nil,
              !.lm = NilMounter, !.skipped = {}, !.fit = TRUE]

\* the body of the call in slot c ends with the locals of s
EndBody(c, s, depth) ==
    LET pc2 == AfterBody(s, depth)
    IN /\ slots' = [slots EXCEPT ![c] =
                      IF pc2 = "returned" THEN Returned(s) ELSE [s EXCEPT !.pc = pc2]]
       /\ hist' = IF pc2 = "returned"
                  THEN HistReturn(SharedKeyOf(Resolve(s.src, s.ld)), s.retErr)
                  ELSE hist

\* the slot after it started a step of the body, and after the step succeeded
Started(s, step) == [s EXCEPT !.steps = Append(@, step)]
Succeeded(s, step) == [s EXCEPT !.steps = Append(@, step), !.nOk = @ + 1]

\* as StepAfter, with the hash context persisted while the ref is mounted
StepAfterPersistFirst(step) ==
    CASE step = "mount" -> "getcc"
      [] step = "getcc" -> "copy"
      [] step = "copy" -> "setcc"
      [] step = "setcc" -> "unmount"
      [] step = "unmount" -> "store"
      [] step = "store" -> "commit"

\* lines 125-192: the step of the body that follows a step that succeeded
StepAfter(step) ==
    CASE step = "mount" -> "getcc"
      [] step = "getcc" -> "copy"
      [] step = "copy" -> "unmount"
      [] step = "unmount" -> "setcc"
      [] step = "setcc" -> "store"
      [] step = "store" -> "commit"

\* a collaborator call of the body fails: its error is returned as it is
FailBody(c, step, depth) ==
    /\ CanFault
    /\ faults' = faults + 1
    /\ EndBody(c, [slots[c] EXCEPT !.retErr = step], depth)

\* the same for a call that is one of the recorded steps
FailStep(c, err, step, depth) ==
    /\ CanFault
    /\ faults' = faults + 1
    /\ EndBody(c, Started([slots[c] EXCEPT !.retErr = err], step), depth)

\* ------------------------------------------------------------- operations

\* localSource.Resolve (lines 51-61) and localSourceHandler.CacheKey (lines
\* 68-87) on the handler, with the operation context ctx
CacheKeyCall(c, id, ctx) ==
    /\ ~InFlight(c)
    /\ slots' = [slots EXCEPT ![c] =
                    [IdleSlot EXCEPT !.pc = "returned", !.op = "CacheKey",
                                     !.src = id, !.ctx = ctx,
                                     !.ck = CacheKey(Resolve(id, LocalDirs), ctx)]]
    /\ UNCHANGED <<refs, relPending, invocations, faults, hist>>

\* localSource.Resolve and Snapshot, lines 89-101: the session check, the
\* shared key and the search
SnapshotStart(c, id, ctx) ==
    /\ ~InFlight(c)
    /\ invocations < MaxInvocations
    /\ invocations' = invocations + 1
    /\ LET ls == Resolve(id, LocalDirs)
           s == [IdleSlot EXCEPT !.op = "Snapshot", !.src = id, !.ctx = ctx]
       IN \/ /\ SnapshotSession(ls, ctx) = Empty
             /\ EndBody(c, [s EXCEPT !.retErr = NoSession], 0)
             /\ UNCHANGED faults
          \/ /\ SnapshotSession(ls, ctx) # Empty
             /\ CanFault
             /\ faults' = faults + 1
             /\ EndBody(c, [s EXCEPT !.retErr = "search", !.nSearch = 1,
                                      !.sharedKey = SharedKeyOf(ls)], 0)
          \/ /\ SnapshotSession(ls, ctx) # Empty
             /\ LET sis == MdSearch(SharedKeyOf(ls))
                IN slots' = [slots EXCEPT ![c] =
                               [s EXCEPT !.sharedKey = SharedKeyOf(ls), !.nSearch = 1,
                                   !.sis = sis, !.i = 1,
                                   !.pc = IF sis = Empty THEN "new" ELSE "getmutable"]]
             /\ hist' = [hist EXCEPT ![SharedKeyOf(ls)].clean =
                           @ /\ ~\E d \in Slots \ {c} :
                                   InFlight(d) /\ sharedKey(d) = SharedKeyOf(ls)]
             /\ UNCHANGED faults
    /\ UNCHANGED <<refs, relPending>>

\* lines 102-108: one iteration of the loop over the matches.  GetMutable
\* returns the ref and no error, or nil and an error
TryGetMutable(c) ==
    /\ slots[c].pc = "getmutable"
    /\ LET s == slots[c]
           r == LoopMatch(s.sis, s.i)
           err == IF Acquirable(r) THEN "nil" ELSE "locked or not found"
           got == IF err = "nil" THEN r ELSE Nil
           m == LoopTake(err, got, r, s.mutable)
           done == LoopDone(err, s.i, Len(s.sis))
       IN /\ refs' = IF err = "nil" THEN [refs EXCEPT ![r].state = "held"] ELSE refs
          /\ slots' = [slots EXCEPT
                ![c].mutable = m,
                ![c].i = s.i + 1,
                ![c].pc = IF ~done THEN "getmutable"
                          ELSE IF NeedNew(m) THEN "new" ELSE "mount",
                ![c].held = IF err = "nil" THEN @ \cup {r} ELSE @,
                ![c].nAcq = IF err = "nil" THEN @ + 1 ELSE @,
                ![c].skipped = IF ReuseRef(err) THEN @ ELSE @ \cup {r},
                ![c].fit = @ /\ (ReuseRef(err) <=> err = "nil"),
                ![c].lostRace = @ \/ (err # "nil" /\ \E d \in Slots \ {c} :
                                          InFlight(d) /\ slots[d].mutable = r)]
          /\ hist' = [hist EXCEPT ![sharedKey(c)].clean =
                        @ /\ (r = hist[sharedKey(c)].first => err = "nil")]
    /\ UNCHANGED <<relPending, invocations, faults>>

\* lines 110-117: cm.New, which hands out an id not used before
NewRef(c) ==
    /\ slots[c].pc = "new"
    /\ \/ /\ FailBody(c, "new", 0)
          /\ UNCHANGED refs
       \/ \E r \in Refs :
          /\ refs[r].state = "none"
          /\ refs' = [refs EXCEPT ![r].state = "held"]
          /\ slots' = [slots EXCEPT ![c].mutable = r, ![c].pc = "mount",
                          ![c].held = @ \cup {r}, ![c].nNew = @ + 1]
          /\ hist' = [hist EXCEPT ![sharedKey(c)] =
                        [@ EXCEPT !.created = @ + 1,
                                  !.first = IF hist[sharedKey(c)].created = 0 THEN r ELSE @]]
          /\ UNCHANGED faults
    /\ UNCHANGED <<relPending, invocations>>

\* lines 125-135: mutable.Mount(ctx, false), snapshot.LocalMounter(mount) and
\* lm.Mount(); only the release guard is registered yet
LocalMount(c) ==
    /\ slots[c].pc = "mount"
    /\ \/ /\ FailStep(c, "mount", "mount", 1)
          /\ UNCHANGED refs
       \/ /\ FailStep(c, "lmmount", "mount", 1)
          /\ UNCHANGED refs
       \/ /\ slots' = [slots EXCEPT ![c] =
                          [Succeeded(slots[c], "mount") EXCEPT
                              !.pc = StepAfter("mount"), !.lm = "lm"]]
          /\ refs' = [refs EXCEPT ![slots[c].mutable].mounted = TRUE]
          /\ UNCHANGED <<faults, hist>>
    /\ UNCHANGED <<relPending, invocations>>

\* line 143: contenthash.GetCacheContext
GetCacheContext(c) ==
    /\ slots[c].pc = "getcc"
    /\ \/ FailBody(c, "getcc", 2)
       \/ /\ slots' = [slots EXCEPT ![c].pc = StepAfter("getcc")]
          /\ UNCHANGED <<faults, hist>>
    /\ UNCHANGED <<refs, relPending, invocations>>

\* line 148: fsutils.CopyDir into the mount; a copy that fails (or is
\* cancelled) leaves the ref with a part of the directory
CopyDir(c) ==
    /\ slots[c].pc = "copy"
    /\ \/ /\ FailStep(c, "copy", "copy", 2)
          /\ refs' = [refs EXCEPT ![slots[c].mutable].partial = TRUE]
       \/ /\ slots' = [slots EXCEPT ![c] =
                          [Succeeded(slots[c], "copy") EXCEPT !.pc = StepAfter("copy")]]
          /\ refs' = [refs EXCEPT ![slots[c].mutable].partial = FALSE]
          /\ UNCHANGED <<faults, hist>>
    /\ UNCHANGED <<relPending, invocations>>

\* lines 152-155: the explicit lm.Unmount(); a failed unmount leaves the mount
ExplicitUnmount(c) ==
    /\ slots[c].pc = "unmount"
    /\ \/ /\ CanFault
          /\ faults' = faults + 1
          /\ EndBody(c, Started([slots[c] EXCEPT !.retErr = "unmount",
                                                   !.nUnmount = @ + 1], "unmount"), 2)
          /\ refs' = [refs EXCEPT ![slots[c].mutable].partial = TRUE]
       \/ /\ slots' = [slots EXCEPT ![c] =
                          [Succeeded(slots[c], "unmount") EXCEPT
                              !.pc = StepAfter("unmount"), !.nUnmount = @ + 1,
                              !.unmountOk = TRUE,
                              !.lm = LmAfterUnmount(slots[c].lm)]]
          /\ refs' = [refs EXCEPT ![slots[c].mutable].mounted = FALSE]
          /\ UNCHANGED <<faults, hist>>
    /\ UNCHANGED <<relPending, invocations>>

\* line 157: contenthash.SetCacheContext persists the hashes of the copy
SetCacheContext(c) ==
    /\ slots[c].pc = "setcc"
    /\ \/ /\ FailStep(c, "setcc", "setcc", 2)
          /\ refs' = [refs EXCEPT ![slots[c].mutable].partial = TRUE]
       \/ /\ slots' = [slots EXCEPT ![c] =
                          [Succeeded(slots[c], "setcc") EXCEPT
                              !.pc = StepAfter("setcc"), !.nSave = @ + 1]]
          /\ UNCHANGED <<refs, faults, hist>>
    /\ UNCHANGED <<relPending, invocations>>

\* lines 161-183: the shared key is stored on the record unless it is there
StoreSharedKey(c) ==
    /\ slots[c].pc = "store"
    /\ LET m == slots[c].mutable
           si == refs[m].md
           v == StorageGet(si, SkipLookupKey)
       IN IF v # NilValue /\ ~JSONIsString(v.Value)
          THEN /\ EndBody(c, [slots[c] EXCEPT !.retErr = "unmarshal"], 2)
               /\ UNCHANGED <<refs, faults>>
          ELSE IF SkipStoreSharedKey(v, sharedKey(c))
          THEN /\ slots' = [slots EXCEPT ![c].pc = StepAfter("store")]
               /\ UNCHANGED <<refs, faults, hist>>
          ELSE \/ /\ FailStep(c, "update", "store", 2)
                  /\ UNCHANGED refs
               \/ /\ refs' = [refs EXCEPT
                                ![m].md = StorageSetValue(si, StoredKey(sharedKey(c)),
                                                          NewIndexedValue(sharedKey(c))),
                                ![m].nSet = @ + 1]
                  /\ slots' = [slots EXCEPT ![c] =
                                  [Succeeded(slots[c], "store") EXCEPT
                                      !.pc = StepAfter("store"), !.nWrite = @ + 1]]
                  /\ UNCHANGED <<faults, hist>>
    /\ UNCHANGED <<relPending, invocations>>

\* lines 185-192: mutable.Commit; on success the ref is the caller's snapshot
Commit(c) ==
    /\ slots[c].pc = "commit"
    /\ \/ /\ FailStep(c, "commit", "commit", 2)
          /\ UNCHANGED refs
       \/ /\ refs' = [refs EXCEPT ![slots[c].mutable].state = "immutable"]
          /\ EndBody(c, Succeeded([slots[c] EXCEPT !.out = slots[c].mutable,
                            !.mutable = MutableAfterCommit(slots[c].mutable),
                            !.nCommit = @ + 1], "commit"), 2)
          /\ UNCHANGED faults
    /\ UNCHANGED <<relPending, invocations>>

\* lines 137-141 at return: the deferred lm.Unmount(), whose error is dropped.
\* An Unmount that failed at line 152 may fail again: it is the same failure
DeferredUnmount(c) ==
    /\ slots[c].pc = "defer2"
    /\ \E m \in slots[c].held :
       /\ refs[m].mounted
       /\ \/ /\ refs' = [refs EXCEPT ![m].mounted = FALSE]
             /\ EndBody(c, [slots[c] EXCEPT !.nUnmount = @ + 1, !.unmountOk = TRUE], 1)
             /\ UNCHANGED faults
          \/ /\ CanFault \/ slots[c].retErr = "unmount"
             /\ faults' = IF slots[c].retErr = "unmount" THEN faults ELSE faults + 1
             /\ EndBody(c, [slots[c] EXCEPT !.nUnmount = @ + 1], 1)
             /\ UNCHANGED refs
    /\ UNCHANGED <<relPending, invocations>>

\* lines 119-123 at return: the deferred function starts the goroutine that
\* releases the ref, and the call returns; a mount that its Unmount did not
\* remove is left behind
DeferredRelease(c) ==
    /\ slots[c].pc = "defer1"
    /\ relPending' = [relPending EXCEPT ![slots[c].mutable] = @ + 1]
    /\ refs' = [refs EXCEPT ![slots[c].mutable] =
                   [@ EXCEPT !.mounted = FALSE, !.dangling = @ \/ refs[slots[c].mutable].mounted]]
    /\ EndBody(c, [slots[c] EXCEPT !.nRelease = @ + 1], 0)
    /\ UNCHANGED <<invocations, faults>>

\* the goroutine of line 121: mutable.Release frees the ref, which the
\* retain policy keeps in the store
ReleaseGoroutine(r) ==
    /\ relPending[r] > 0
    /\ relPending' = [relPending EXCEPT ![r] = @ - 1]
    /\ refs' = [refs EXCEPT ![r].state = IF @ = "held" THEN "free" ELSE @]
    /\ UNCHANGED <<slots, invocations, faults, hist>>

\* the caller of Snapshot releases the immutable ref it was given
ReleaseSnapshot(r) ==
    /\ refs[r].state = "immutable"
    /\ refs' = [refs EXCEPT ![r].state = "free"]
    /\ UNCHANGED <<slots, relPending, invocations, faults, hist>>

\* a ref that is not in use is deleted (pruned); its index entry remains
DeleteRef(r) ==
    /\ refs[r].state = "free"
    /\ ~refs[r].mounted
    /\ refs' = [refs EXCEPT ![r].state = "deleted", ![r].partial = FALSE]
    /\ UNCHANGED <<slots, relPending, invocations, faults, hist>>

Next ==
    \/ \E c \in Slots, id \in Idents, ctx \in Contexts : CacheKeyCall(c, id, ctx)
    \/ \E c \in Slots, id \in Idents, ctx \in Contexts : SnapshotStart(c, id, ctx)
    \/ \E c \in Slots : TryGetMutable(c)
    \/ \E c \in Slots : NewRef(c)
    \/ \E c \in Slots : LocalMount(c)
    \/ \E c \in Slots : GetCacheContext(c)
    \/ \E c \in Slots : CopyDir(c)
    \/ \E c \in Slots : ExplicitUnmount(c)
    \/ \E c \in Slots : SetCacheContext(c)
    \/ \E c \in Slots : StoreSharedKey(c)
    \/ \E c \in Slots : Commit(c)
    \/ \E c \in Slots : DeferredUnmount(c)
    \/ \E c \in Slots : DeferredRelease(c)
    \/ \E r \in Refs : ReleaseGoroutine(r)
    \/ \E r \in Refs : ReleaseSnapshot(r)
    \/ \E r \in Refs : DeleteRef(r)

Spec == Init /\ [][Next]_vars

\* the Go scheduler runs a goroutine that was started
FairSpec == Spec /\ \A r \in Refs : WF_vars(ReleaseGoroutine(r))

\* ------------------------------------------------- CacheKey on its own

\* the inputs of CacheKey: names, session IDs of the identifier and of the
\* context, and pattern lists, among them the same patterns in another order
\* and a pattern that holds a quote and a comma
PatX == <<"a">>
PatY == <<"b">>
PatQ == <<"a", "\"", ",", "\"", "b">>
CKNames == {<<"a">>, <<"b">>}
CKSessions == {Empty, <<"s">>, <<"t">>}
CKContexts == {Empty, <<"s">>}
CKPatterns == {Empty, <<PatX, PatY>>, <<PatY, PatX>>, <<PatQ>>}
CKIdents ==
    {Ident(n, sid, Empty, inc, exc) :
        n \in CKNames, sid \in CKSessions, inc \in CKPatterns, exc \in CKPatterns}

\* the two calls whose keys are compared
CKPair == {1, 2}

\* each of the two handlers is asked for its cache key once
NextCK ==
    \E c \in CKPair, id \in CKIdents, ctx \in CKContexts :
        slots[c].pc = "idle" /\ CacheKeyCall(c, id, ctx)

SpecCK == Init /\ [][NextCK]_vars

\* ------------------------------------------------ the shared key on its own

\* the inputs of line 95: names and hints with and without the separator, and
\* configurations of the local directories (a name that is not configured has
\* the host path "")
SKNames == {<<"a">>, <<"a", ":">>, <<"b">>}
SKHints == {Empty, <<"x">>, <<":", "x">>}
SKDirs ==
    { (<<"a">> :> <<"/", "p">>) @@ (<<"a", ":">> :> <<"/", "p">>) @@ (<<"b">> :> <<"/", "q">>),
      (<<"a">> :> <<"/", "q">>) }
SKIdents == {Ident(n, Empty, h, Empty, Empty) : n \in SKNames, h \in SKHints}

\* line 95 on the handler of identifier id of a source configured with ld
SharedKeyCall(c, id, ld) ==
    /\ slots[c].pc = "idle"
    /\ slots' = [slots EXCEPT ![c] =
                    [IdleSlot EXCEPT !.pc = "returned", !.op = "sharedKey",
                                     !.src = id, !.ld = ld,
                                     !.sharedKey = SharedKeyOf(Resolve(id, ld))]]
    /\ UNCHANGED <<refs, relPending, invocations, faults, hist>>

NextSK == \E c \in CKPair, id \in SKIdents, ld \in SKDirs : SharedKeyCall(c, id, ld)

SpecSK == Init /\ [][NextSK]_vars


\* ------------------------------------------------------------------ claims

Range(q) == {q[j] : j \in 1..Len(q)}

SnapshotSlots == {c \in Slots : slots[c].op = "Snapshot"}
ReturnedOk(c) ==
    slots[c].op = "Snapshot" /\ slots[c].pc = "returned" /\ slots[c].retErr = "nil"
ReturnedErr(c) ==
    slots[c].op = "Snapshot" /\ slots[c].pc = "returned" /\ slots[c].retErr # "nil"

\* C1: while the calls for a shared key were all successful, did not overlap
\* and found the ref created by the first of them acquirable, the store created
\* one ref for the key at most, and every call that holds or held a ref holds
\* or held that one.
C1_Reuse ==
    \A k \in SharedKeys :
        hist[k].clean =>
            /\ hist[k].created <= 1
            /\ \A c \in SnapshotSlots :
                  sharedKey(c) = k /\ slots[c].held # {}
                      => slots[c].held = {hist[k].first} /\ slots[c].nNew <= 1

\* C1 witness: three calls for the key have returned, all of them successful
\* and the last one on the ref created by the first, which is the only ref.
C1_ReuseReached ==
    \E k \in SharedKeys, c \in Slots :
        /\ hist[k].clean /\ hist[k].created = 1
        /\ invocations = 3
        /\ \A d \in Slots : ~InFlight(d)
        /\ ReturnedOk(c) /\ slots[c].nAcq = 1 /\ slots[c].nNew = 0
        /\ slots[c].out = hist[k].first

\* C2 (as claimed): after exactly two Snapshot calls for one identifier, both
\* successful and the second on the ref of the first, the shared key was
\* written once in total: once on the record, and not by the second call.
C2_OneIndexWrite ==
    \A c, d \in Slots :
        ( /\ c # d /\ ReturnedOk(c) /\ ReturnedOk(d)
          /\ slots[c].src = slots[d].src
          /\ invocations = 2
          /\ slots[c].nNew = 1 /\ slots[d].nAcq = 1
          /\ slots[c].held = slots[d].held )
        => /\ slots[c].nWrite + slots[d].nWrite = 1
           /\ \A m \in slots[d].held : refs[m].nSet = 1

\* C3: a call whose copy failed returns the copier's error with no result; it
\* has called Unmount once on its mount (which is gone unless that Unmount
\* failed itself) and started one release of the one ref it held, and it has
\* written no shared key, saved no hash context and committed nothing.
C3_CopyFailure ==
    \A c \in SnapshotSlots :
        /\ (slots[c].pc = "defer1" /\ slots[c].retErr = "copy")
              => /\ slots[c].nUnmount = 1
                 /\ slots[c].unmountOk => ~refs[slots[c].mutable].mounted
        /\ (slots[c].pc = "returned" /\ slots[c].retErr = "copy")
              => /\ slots[c].out = Nil
                 /\ slots[c].nUnmount = 1
                 /\ slots[c].nRelease = 1
                 /\ Cardinality(slots[c].held) = 1
                 /\ slots[c].nWrite = 0 /\ slots[c].nSave = 0 /\ slots[c].nCommit = 0

\* C3 witness: a call on a reused ref has returned the copier's error.
C3_CopyFailureReached ==
    \E c \in Slots :
        /\ slots[c].pc = "returned" /\ slots[c].retErr = "copy"
        /\ slots[c].nAcq = 1 /\ slots[c].unmountOk

\* the state part of C4: a call that got a ref has started no release while it runs; when it has
\* returned an error it has started exactly one, on the ref it held, and when
\* it has returned a snapshot it has started none.  A release that was started
\* is of a ref that is still held, and no ref has two.
C4_ReleaseOnce ==
    /\ \A c \in SnapshotSlots :
          /\ InFlight(c) => slots[c].nRelease = 0
          /\ (ReturnedErr(c) /\ slots[c].held # {}) => slots[c].nRelease = 1
          /\ ReturnedOk(c) => slots[c].nRelease = 0 /\ slots[c].out \in slots[c].held
          /\ slots[c].held = {} => slots[c].nRelease = 0
    /\ \A r \in Refs :
          /\ relPending[r] <= 1
          /\ relPending[r] = 1 =>
                /\ refs[r].state = "held"
                /\ \A c \in Slots : InFlight(c) => r \notin slots[c].held

\* C4: the above holds in every state, and a release that was started is
\* eventually performed, freeing the ref (the goroutine of line 121 is run).
C4_ReleaseOnceEventually ==
    /\ []C4_ReleaseOnce
    /\ \A r \in Refs :
          (relPending[r] = 1) ~> (relPending[r] = 0 /\ refs[r].state = "free")

\* C4 witness: a call whose Commit failed has returned and its release runs.
C4_ReleaseOnceReached ==
    \E c \in Slots, r \in Refs :
        /\ ReturnedErr(c) /\ slots[c].retErr = "commit"
        /\ slots[c].held = {r} /\ slots[c].nRelease = 1 /\ relPending[r] = 1

\* C5 (as claimed): no ref that a search for a shared key returns holds a copy
\* that was cut short.
C5_NoPartialRefFound ==
    \A k \in SharedKeys : \A r \in Range(MdSearch(k)) : ~refs[r].partial

\* C6 (as claimed): the ref of a call that returned an error is not found by a
\* search for the call's shared key.
C6_FailedRefNotLinked ==
    \A c \in Slots :
        ReturnedErr(c) => \A m \in slots[c].held : m \notin Range(MdSearch(sharedKey(c)))

\* C7: a call never holds two refs and gets a ref once at most, by GetMutable
\* or by New.  The matches it tried are the first ones in index order: it
\* skipped exactly those for which GetMutable failed, the match it took is the
\* last one it tried, and it called New only after it skipped every match.
\* Past the loop it holds one ref, and no error of it is GetMutable's.
C7_StaleMatchesSkipped ==
    \A c \in SnapshotSlots :
        LET s == slots[c]
            tried == {s.sis[j] : j \in 1..(s.i - 1)}
        IN /\ Cardinality(s.held) <= 1
           /\ s.nAcq + s.nNew <= 1
           /\ s.fit
           /\ s.retErr # "locked or not found"
           /\ InFlight(c) =>
                 /\ s.i - 1 <= Len(s.sis)
                 /\ s.skipped \cup (IF s.nAcq = 1 THEN s.held ELSE {}) = tried
                 /\ s.nAcq = 1 => s.mutable = s.sis[s.i - 1] /\ s.skipped \cap s.held = {}
                 /\ s.nNew = 1 => s.skipped = Range(s.sis)
                 /\ s.pc = "new" => s.skipped = Range(s.sis) /\ s.held = {}
                 /\ s.pc \in {"mount", "getcc", "copy", "unmount", "setcc", "store", "commit"}
                       => s.nAcq + s.nNew = 1 /\ s.held = {s.mutable}

\* C7 witness: a call skipped a stale match and took the next one.
C7_StaleMatchesSkippedReached ==
    \E c \in Slots :
        /\ slots[c].pc = "mount" /\ slots[c].skipped # {} /\ slots[c].nAcq = 1
        /\ \E r \in slots[c].skipped : refs[r].state = "deleted"

\* C8: CacheKey returns the no-session error exactly when neither the
\* identifier nor the context carries a session; Snapshot returns it exactly
\* when the context carries none, whatever the identifier carries.
C8_NoSession ==
    \A c \in Slots :
        /\ slots[c].op = "CacheKey" =>
              (slots[c].ck.err = NoSession
                  <=> slots[c].src.SessionID = Empty /\ slots[c].ctx = Empty)
        /\ (slots[c].op = "Snapshot" /\ slots[c].pc = "returned") =>
              (slots[c].retErr = NoSession <=> slots[c].ctx = Empty)
        /\ (slots[c].op = "Snapshot" /\ InFlight(c)) => slots[c].ctx # Empty

\* C8 witness: for an identifier with a session and a context without one,
\* CacheKey has returned a key and Snapshot the no-session error.
C8_NoSessionReached ==
    \E c, d \in Slots :
        /\ slots[c].src.SessionID # Empty /\ slots[c].ctx = Empty
        /\ slots[d].src = slots[c].src /\ slots[d].ctx = Empty
        /\ slots[c].op = "CacheKey" /\ slots[c].ck.err = "nil"
        /\ slots[d].op = "Snapshot" /\ slots[d].pc = "returned"
        /\ slots[d].retErr = NoSession


\* the fields the cache key is made of: the session ID used, the name and the
\* two pattern lists
KeyFields(c) ==
    <<IF slots[c].src.SessionID # Empty THEN slots[c].src.SessionID ELSE slots[c].ctx,
      slots[c].src.Name, slots[c].src.IncludePatterns, slots[c].src.ExcludePatterns>>

Keyed(c) == slots[c].op = "CacheKey" /\ slots[c].ck.err = "nil"

\* C9: two CacheKey calls return the same key exactly when they agree on the
\* session ID used, the name, the include list and the exclude list (order
\* included), the digest being injective.
C9_CacheKeyInjective ==
    \A c, d \in Slots :
        (Keyed(c) /\ Keyed(d)) =>
            (slots[c].ck.key = slots[d].ck.key <=> KeyFields(c) = KeyFields(d))

\* C9 witness: two calls that differ in the order of the include patterns
\* only, with different keys.
C9_CacheKeyInjectiveReached ==
    \E c, d \in Slots :
        /\ Keyed(c) /\ Keyed(d)
        /\ slots[c].src.IncludePatterns = <<PatX, PatY>>
        /\ slots[d].src = [slots[c].src EXCEPT !.IncludePatterns = <<PatY, PatX>>]
        /\ slots[c].ctx = slots[d].ctx
        /\ slots[c].ck.key # slots[d].ck.key

\* another configuration of the local directories, and another hint
OtherDirs == (<<"a">> :> <<"/", "z">>)
OtherHint == <<"h">>

\* the state part of C10: what CacheKey returned is what it returns for another
\* hint and another host path, and in the store as it is now; two calls with
\* the same identifier and context, made in whatever states, returned the
\* same; and the slot of a CacheKey call shows no collaborator call.
C10_Independent ==
    \A c \in Slots :
        slots[c].op = "CacheKey" =>
            /\ slots[c].ck =
                  CacheKey(Resolve([slots[c].src EXCEPT !.SharedKeyHint = OtherHint],
                                   OtherDirs), slots[c].ctx)
            /\ slots[c].ck = CacheKey(Handler(c), slots[c].ctx)
            /\ \A d \in Slots :
                  (slots[d].op = "CacheKey" /\ KeyFields(d) = KeyFields(c))
                      => slots[d].ck = slots[c].ck
            /\ slots[c].held = {} /\ slots[c].out = Nil
            /\ slots[c].nNew + slots[c].nAcq + slots[c].nUnmount + slots[c].nWrite
                  + slots[c].nSave + slots[c].nCommit + slots[c].nRelease = 0

\* a step in which some slot gets the result of a CacheKey call
CacheKeyStep ==
    \E c \in Slots : slots'[c] # slots[c] /\ slots'[c].op = "CacheKey"

\* C10: a CacheKey call leaves the refs, their metadata records, the pending
\* releases and every other slot as they are, and its result does not depend
\* on the hint, the host path or the state of the store.
C10_CacheKeyNoEffect ==
    /\ []C10_Independent
    /\ [][CacheKeyStep =>
            /\ UNCHANGED <<refs, relPending, invocations, faults, hist>>
            /\ \A c, d \in Slots :
                  (slots'[c] # slots[c] /\ d # c) => slots'[d] = slots[d]]_vars

\* C10 witness: CacheKey returned a key while a Snapshot for the same name was
\* copying into a ref and another ref was indexed.
C10_CacheKeyNoEffectReached ==
    \E c, d \in Slots, r \in Refs :
        /\ Keyed(c)
        /\ slots[d].pc = "copy" /\ slots[d].src.Name = slots[c].src.Name
        /\ r \notin slots[d].held /\ refs[r].md # {}

\* what the shared key is meant to be a function of: the name, the hint and
\* the configured host path of the name
KeyTriple(c) ==
    <<slots[c].src.Name, slots[c].src.SharedKeyHint,
      LookupDir(slots[c].ld, slots[c].src.Name)>>

\* C11 (as claimed): two computations of the shared key give the same key
\* exactly when they agree on name, hint and host path: calls that differ in
\* one of the three use different shared keys.
C11_SharedKeyOfTriple ==
    \A c, d \in Slots :
        (slots[c].op = "sharedKey" /\ slots[d].op = "sharedKey") =>
            (slots[c].sharedKey = slots[d].sharedKey <=> KeyTriple(c) = KeyTriple(d))

\* the steps of the body in the order of the claim; the write of the shared
\* key is left out when it is skipped
StepOrder == <<"mount", "copy", "unmount", "setcc", "store", "commit">>
StepOrderSkipped == <<"mount", "copy", "unmount", "setcc", "commit">>

IsPrefix(p, q) == Len(p) <= Len(q) /\ SubSeq(q, 1, Len(p)) = p

\* the steps of a call that succeeded
StepsOk(c) == Range(SubSeq(slots[c].steps, 1, slots[c].nOk))

\* the state part of C12: the steps a call started are an initial part of
\* mount, copy, unmount, hash persist, index write, commit; all of them
\* succeeded but possibly the last one, and then the call has failed with that
\* step's error; the hash context was saved, the shared key written and the
\* ref committed only by their steps; and a call whose explicit unmount failed
\* started nothing after it.
C12_StepsInOrder ==
    \A c \in SnapshotSlots :
        LET s == slots[c]
        IN /\ IsPrefix(s.steps, StepOrder) \/ IsPrefix(s.steps, StepOrderSkipped)
           /\ s.nOk \in {Len(s.steps), Len(s.steps) - 1}
           /\ s.nOk < Len(s.steps) =>
                 /\ s.pc \in {"defer2", "defer1", "returned"}
                 /\ s.retErr # "nil" /\ s.out = Nil
           /\ s.nSave = (IF "setcc" \in StepsOk(c) THEN 1 ELSE 0)
           /\ s.nWrite = (IF "store" \in StepsOk(c) THEN 1 ELSE 0)
           /\ s.nCommit = (IF "commit" \in StepsOk(c) THEN 1 ELSE 0)
           /\ (InFlight(c) /\ s.mutable # Nil /\ refs[s.mutable].mounted)
                 => "mount" \in StepsOk(c)
           /\ s.retErr = "unmount" =>
                 /\ s.steps = <<"mount", "copy", "unmount">> /\ s.nOk = 2
                 /\ s.nSave = 0 /\ s.nWrite = 0 /\ s.nCommit = 0 /\ s.out = Nil

\* C12: in every execution the steps of a call occur in the order mount,
\* copy, unmount, hash persist, index write (unless skipped), commit: a step of
\* a call adds one step at the end of what the call did, each step starts only
\* after the one before succeeded, and after a failed explicit unmount no hash
\* context is saved, no shared key written and nothing committed.
C12_StepOrdering ==
    /\ []C12_StepsInOrder
    /\ [][\A c \in Slots :
            \/ slots'[c].steps = slots[c].steps /\ slots'[c].nOk = slots[c].nOk
            \/ slots'[c].steps = Empty
            \/ /\ slots[c].nOk = Len(slots[c].steps)
               /\ Len(slots'[c].steps) = Len(slots[c].steps) + 1
               /\ IsPrefix(slots[c].steps, slots'[c].steps)
               /\ slots'[c].nOk >= slots[c].nOk]_vars

\* C12 witness: a call whose explicit unmount failed has returned, after the
\* mount and the copy and nothing else.
C12_StepOrderingReached ==
    \E c \in Slots :
        /\ ReturnedErr(c) /\ slots[c].retErr = "unmount"
        /\ slots[c].steps = <<"mount", "copy", "unmount">> /\ slots[c].nOk = 2
        /\ slots[c].nUnmount >= 1

\* the calls that hold ref r: in flight, with r in the local mutable
Holders(r) == {c \in SnapshotSlots : InFlight(c) /\ slots[c].mutable = r}

\* C13: no ref is held by two Snapshot calls at once, so no two calls mount
\* it or copy into it at once; the ref a call holds is held in the store, is
\* the one the call acquired or created, and no release of it is under way.
C13_ExclusiveOwnership ==
    \A r \in Refs :
        /\ Cardinality(Holders(r)) <= 1
        /\ \A c \in Holders(r) :
              /\ refs[r].state = "held"
              /\ slots[c].held = {r}
              /\ relPending[r] = 0

\* C13 witness: two calls copy at once, into two refs, the second one after
\* GetMutable failed for the ref the first one holds.
C13_ExclusiveOwnershipReached ==
    \E c, d \in Slots :
        /\ c # d /\ slots[c].pc = "copy" /\ slots[d].pc = "copy"
        /\ slots[c].mutable # slots[d].mutable
        /\ slots[c].mutable \in slots[d].skipped
        /\ sharedKey(c) = sharedKey(d)

\* the steps of the call in slot c
SlotStep(c) ==
    \/ TryGetMutable(c) \/ NewRef(c) \/ LocalMount(c) \/ GetCacheContext(c)
    \/ CopyDir(c) \/ ExplicitUnmount(c) \/ SetCacheContext(c) \/ StoreSharedKey(c)
    \/ Commit(c) \/ DeferredUnmount(c) \/ DeferredRelease(c)

PastLoop(c) ==
    slots[c].pc \in {"mount", "getcc", "copy", "unmount", "setcc", "store", "commit"}

\* C14 (as claimed): while no collaborator step failed, a call that lost the
\* race for a ref (GetMutable failed because an overlapping call held it)
\* goes on with a fresh ref.
C14_LoserCreatesFresh ==
    \A c \in SnapshotSlots :
        (faults = 0 /\ slots[c].lostRace /\ (PastLoop(c) \/ ReturnedOk(c)))
            => slots[c].nNew = 1

\* C14 (amended): no call waits for another one: a call in flight can take
\* its next step whatever the others do (the store having an id left when the
\* step is New); while no collaborator step failed, a call with a session
\* returns no error but a committed ref that carries the index value of its
\* shared key; and a call that lost the race for a ref goes on with one ref,
\* none of those it skipped: a fresh one exactly when it skipped every match.
C14_RacingCallsFinish ==
    \A c \in SnapshotSlots :
        LET s == slots[c]
        IN /\ (InFlight(c) /\ (s.pc = "new" => \E r \in Refs : refs[r].state = "none"))
                 => ENABLED SlotStep(c)
           /\ (faults = 0 /\ s.pc = "returned" /\ s.ctx # Empty) =>
                 /\ s.retErr = "nil" /\ s.out # Nil /\ s.nCommit = 1
                 /\ s.held = {s.out}
                 /\ Indexed(refs[s.out].md, sharedKey(c))
           /\ (faults = 0 /\ s.lostRace /\ PastLoop(c)) =>
                 /\ s.held = {s.mutable} /\ s.mutable \notin s.skipped
                 /\ s.nNew = 1 <=> s.skipped = Range(s.sis)
                 /\ s.nNew = 0 <=> s.nAcq = 1

\* C14 witness: two calls for one shared key that overlapped have both
\* returned a snapshot, the one that lost the race a fresh ref; no step
\* failed and both refs are found by the shared key.
C14_RacingCallsFinishReached ==
    \E c, d \in Slots :
        /\ c # d /\ faults = 0 /\ ReturnedOk(c) /\ ReturnedOk(d)
        /\ sharedKey(c) = sharedKey(d)
        /\ slots[d].lostRace /\ slots[d].nNew = 1 /\ slots[c].nNew = 1
        /\ slots[c].out # slots[d].out
        /\ Range(MdSearch(sharedKey(c))) = {slots[c].out, slots[d].out}

\* the refs a search for shared key k finds
IndexedRefs(k) == {r \in Refs : Indexed(refs[r].md, k)}

\* no other call for the shared key of c is in flight
Alone(c) ==
    \A d \in SnapshotSlots \ {c} : ~(InFlight(d) /\ sharedKey(d) = sharedKey(c))

\* the state part of C15: a call that found several refs under its shared key
\* and runs alone, past its loop: it holds the first match in index order for
\* which GetMutable did not fail and created no ref, or it skipped every match.
C15_FirstAcquirable ==
    \A c \in SnapshotSlots :
        LET s == slots[c]
        IN (PastLoop(c) /\ Len(s.sis) >= 2 /\ Alone(c) /\ ~s.lostRace) =>
              /\ s.nNew = 0 =>
                    /\ s.nAcq = 1 /\ s.held = {s.mutable}
                    /\ \E j \in 1..Len(s.sis) :
                          /\ s.sis[j] = s.mutable
                          /\ s.skipped = {s.sis[n] : n \in 1..(j - 1)}
              /\ s.nNew = 1 => s.skipped = Range(s.sis)
              /\ Range(s.sis) \subseteq IndexedRefs(sharedKey(c))

\* C15: once several refs carry the index value of a shared key, a later call
\* for the key that does not overlap another one reuses the first match that
\* it can acquire and creates no ref; and the refs found under a shared key
\* grow only by a ref that a call created after it could acquire no match, so
\* their number stops growing while a match stays acquirable.
C15_Convergence ==
    /\ []C15_FirstAcquirable
    /\ [][\A k \in SharedKeys :
            IndexedRefs(k)' # IndexedRefs(k) =>
                \E c \in Slots :
                    /\ slots[c].pc = "store" /\ sharedKey(c) = k
                    /\ slots[c].nNew = 1 /\ slots[c].skipped = Range(slots[c].sis)
                    /\ IndexedRefs(k)' = IndexedRefs(k) \cup {slots[c].mutable}]_vars

\* C15 witness: two refs carry the index value after a race; a later call,
\* alone, found both, took the first one and is about to commit it, with its
\* shared key written again: still two refs.
C15_ConvergenceReached ==
    \E c \in Slots, k \in SharedKeys :
        /\ slots[c].pc = "commit" /\ sharedKey(c) = k /\ Alone(c)
        /\ hist[k].created = 2 /\ IndexedRefs(k) = Range(slots[c].sis)
        /\ Len(slots[c].sis) = 2 /\ slots[c].mutable = slots[c].sis[1]
        /\ slots[c].nNew = 0 /\ slots[c].nAcq = 1 /\ ~slots[c].lostRace
        /\ \A d \in Slots \ {c} : slots[d].lostRace /\ ReturnedOk(d)

\* the local mount of the call in slot c succeeded
Mounted(c) == "mount" \in StepsOk(c)

\* C16 (as claimed): a call that has returned has invoked Unmount exactly
\* once when its local mount succeeded, whatever step failed afterwards, and
\* never when no mount succeeded.
C16_UnmountOnce ==
    \A c \in SnapshotSlots :
        slots[c].pc = "returned" =>
            slots[c].nUnmount = (IF Mounted(c) THEN 1 ELSE 0)

\* C17 (as claimed): when a call that mounted its ref has returned an error,
\* its ref is released: no release of it is still to be performed, and the
\* ref is held only if another call has acquired it since.
C17_ReleasedAtReturn ==
    \A c \in SnapshotSlots :
        (ReturnedErr(c) /\ Mounted(c)) =>
            \A m \in slots[c].held :
                /\ relPending[m] = 0
                /\ refs[m].state = "held" => Holders(m) # {}

\* the step in which the call in slot c, which mounted its ref, returns an
\* error to its caller
ReturnsError(c) ==
    /\ slots[c].op = "Snapshot" /\ InFlight(c)
    /\ slots'[c].pc = "returned" /\ slots'[c].retErr # "nil"
    /\ "mount" \in Range(SubSeq(slots'[c].steps, 1, slots'[c].nOk))

\* C17 (amended): at the moment such a call returns its error, Unmount has
\* been invoked on its mount, which is gone if an Unmount succeeded, and
\* exactly one release of its ref has been started; the release is performed
\* by a goroutine, so that the ref is still held at the return.
C17_GuardsBeforeReturn ==
    [][\A c \in Slots :
          ReturnsError(c) =>
              LET m == slots[c].mutable
              IN /\ m # Nil /\ slots'[c].held = {m} /\ slots'[c].out = Nil
                 /\ slots'[c].nUnmount >= 1
                 /\ slots'[c].unmountOk => ~refs'[m].mounted
                 /\ slots'[c].nRelease = 1
                 /\ relPending'[m] = relPending[m] + 1
                 /\ refs'[m].state = "held"]_vars

\* C17 witness: a call whose copy failed has returned; its mount is gone and
\* the release of its ref is started and not yet performed.
C17_GuardsBeforeReturnReached ==
    \E c \in Slots, m \in Refs :
        /\ ReturnedErr(c) /\ slots[c].retErr = "copy" /\ slots[c].held = {m}
        /\ slots[c].nUnmount = 1 /\ ~refs[m].mounted
        /\ relPending[m] = 1 /\ refs[m].state = "held" /\ Holders(m) = {}

\* C18 (as claimed): when the release of the ref is about to be started on a
\* failing exit of a call that mounted it, the mount is unmounted: the ref is
\* not released while the mount of the call is there.
C18_NotReleasedWhileMounted ==
    \A c \in SnapshotSlots :
        (slots[c].pc = "defer1" /\ Mounted(c)) =>
            slots[c].nUnmount >= 1 /\ ~refs[slots[c].mutable].mounted

\* C18 (amended): the unmount guard fires for a failure of the hash-context
\* load, the copy or the explicit unmount, and it runs before the release
\* guard: while it is due no release of the ref is started, and when the
\* release is about to be started Unmount has been invoked; the mount is
\* still there at that point only if every Unmount of the call failed.
C18_GuardChainOrder ==
    \A c \in SnapshotSlots :
        LET s == slots[c]
        IN /\ s.pc = "defer2" =>
                 /\ s.retErr \in {"getcc", "copy", "unmount"}
                 /\ s.nRelease = 0 /\ relPending[s.mutable] = 0
                 /\ refs[s.mutable].state = "held" /\ refs[s.mutable].mounted
           /\ (s.pc = "defer1" /\ Mounted(c)) =>
                 /\ s.nUnmount >= 1
                 /\ s.nRelease = 0 /\ relPending[s.mutable] = 0
                 /\ refs[s.mutable].mounted => ~s.unmountOk
           /\ (s.pc \in {"defer1", "returned"} /\ s.retErr \in {"getcc", "copy", "unmount"})
                 => s.nUnmount >= 1
           /\ (s.nRelease = 1 /\ Mounted(c)) => s.nUnmount >= 1

\* C18 witness: after a failed copy the unmount guard has run and removed
\* the mount, and the release guard is about to start the release.
C18_GuardChainOrderReached ==
    \E c \in Slots :
        /\ slots[c].pc = "defer1" /\ slots[c].retErr = "copy"
        /\ slots[c].nUnmount = 1 /\ slots[c].unmountOk
        /\ ~refs[slots[c].mutable].mounted /\ relPending[slots[c].mutable] = 0

\* the identifier of slot c without its session ID
NoSessionID(c) == [slots[c].src EXCEPT !.SessionID = Empty]

\* C19: a CacheKey call for an identifier with a session ID returns a key
\* and no error whatever the context carries: the key of every call for the
\* same identifier, and the key of a call for the identifier without session
\* ID under a context that carries that session ID.  Two calls for one
\* identifier without session ID under contexts that differ return
\* different results.
C19_SessionPrecedence ==
    \A c, d \in Slots :
        (slots[c].op = "CacheKey" /\ slots[d].op = "CacheKey") =>
            /\ slots[c].src.SessionID # Empty =>
                  /\ slots[c].ck.err = "nil"
                  /\ slots[d].src = slots[c].src => slots[d].ck = slots[c].ck
                  /\ (slots[d].src = NoSessionID(c) /\ slots[d].ctx = slots[c].src.SessionID)
                        => slots[d].ck = slots[c].ck
                  /\ (slots[d].src = NoSessionID(c) /\ slots[d].ctx # slots[c].src.SessionID)
                        => slots[d].ck # slots[c].ck
            /\ (slots[c].src.SessionID = Empty /\ slots[d].src = slots[c].src
                   /\ slots[d].ctx # slots[c].ctx)
                  => slots[d].ck # slots[c].ck

\* C19 witness: two calls for an identifier with session ID t, one under a
\* context without session and one under a context with session s, returned
\* the same key.
C19_SessionPrecedenceReached ==
    \E c, d \in Slots :
        /\ Keyed(c) /\ Keyed(d) /\ slots[c].src = slots[d].src
        /\ slots[c].src.SessionID = <<"t">>
        /\ slots[c].ctx = Empty /\ slots[d].ctx = <<"s">>
        /\ slots[c].ck = slots[d].ck

\* the state part of C20: a call that returned because there was no session,
\* the search failed or New failed has held no ref, invoked neither Release
\* nor Unmount, started no step of the body from the mount on, wrote no
\* metadata and committed nothing; and a call without a session has neither
\* searched the index nor tried a match.
C20_NothingDone ==
    \A c \in SnapshotSlots :
        LET s == slots[c]
        IN /\ (s.pc = "returned" /\ s.retErr \in {NoSession, "search", "new"}) =>
                 /\ s.held = {} /\ s.out = Nil /\ s.nNew = 0 /\ s.nAcq = 0
                 /\ s.nRelease = 0 /\ s.nUnmount = 0 /\ s.steps = Empty
                 /\ s.nWrite = 0 /\ s.nSave = 0 /\ s.nCommit = 0
           /\ s.ctx = Empty =>
                 /\ s.pc = "returned" /\ s.retErr = NoSession
                 /\ s.nSearch = 0 /\ s.sharedKey = Empty
           /\ s.retErr = "search" => s.nSearch = 1
           /\ s.retErr = "new" => s.nSearch = 1

\* the step in which the call in slot c returns one of these errors
ReturnsEarly(c) ==
    /\ slots'[c] # slots[c]
    /\ slots'[c].op = "Snapshot" /\ slots'[c].pc = "returned"
    /\ slots'[c].retErr \in {NoSession, "search", "new"}

\* C20: the above, and the step in which such a call fails leaves the refs,
\* their metadata records and mounts and the pending releases as they are.
C20_FailureBeforeRef ==
    /\ []C20_NothingDone
    /\ [][\A c \in Slots : ReturnsEarly(c) => UNCHANGED <<refs, relPending>>]_vars

\* C20 witness: a call for which New failed, after it skipped a match that
\* it could not acquire, has returned; the matched ref is as it was.
C20_FailureBeforeRefReached ==
    \E c \in Slots, r \in Refs :
        /\ ReturnedErr(c) /\ slots[c].retErr = "new" /\ slots[c].nSearch = 1
        /\ refs[r].state = "immutable" /\ r \in IndexedRefs(sharedKey(c))
        /\ \A m \in Refs : relPending[m] = 0 /\ ~refs[m].mounted

====
